---- MODULE Spec2Model ----
(***************************************************************************)
(* Model of the URL shortener: the url-service engine (urlServer, given in *)
(* docs/index.md) with its process-local maps behind one RWMutex, its      *)
(* detached propagation goroutines, the fast cache it calls, and the       *)
(* storage-service (storage-service/main.go) on top of the urls table.     *)
(***************************************************************************)
EXTENDS Integers, Sequences, FiniteSets, Bags, TLC

(* ---------------- bounds of the model ---------------- *)

\* Number of inbound requests (ShortenURL, GetOriginalURL, GetURLStats) served in a run.
MaxOps == 2

\* time.Now() returns readings from 0 up to MaxTime.
MaxTime == 1

\* Largest click_count a row reaches in the runs of the storage-service on its own.
MaxClicks == 2

\* Number of rpcs the storage-service is serving at the same time in those runs.
MaxInFlight == 2

\* Number of inbound requests served in the runs on one custom alias.
MaxAliasOps == 3

(* ---------------- values ---------------- *)

\* The empty string (zero value of a string field).
Empty == ""

\* The zero time.Time (a read of s.createdAt for a missing key).
ZeroTime == -1

\* Request handler goroutines that can be active at the same time.
Procs == {1, 2}

\* Original URLs offered by callers.
URLs == {"https://example.com", "https://x.com"}

\* The URL of the records that an earlier run or another replica of the service left behind.
OldURLs == {"https://x.com"}

\* const charset in generateShortCode.
charset ==
  << "a","b","c","d","e","f","g","h","i","j","k","l","m",
     "n","o","p","q","r","s","t","u","v","w","x","y","z",
     "A","B","C","D","E","F","G","H","I","J","K","L","M",
     "N","O","P","Q","R","S","T","U","V","W","X","Y","Z",
     "0","1","2","3","4","5","6","7","8","9" >>

\* make([]byte, 6) in generateShortCode.
CodeLen == 6

\* Values of time.Now().UnixNano() seen by the CodeLen reads of one generateShortCode call.
NanoSamples == { [i \in 1..CodeLen |-> 62], [i \in 1..CodeLen |-> IF i < 4 THEN 62 ELSE 124] }

\* generateShortCode with make([]byte, 5).
generateShortCodeShort(t) == [i \in 1..(CodeLen - 1) |-> charset[(t[i] % Len(charset)) + 1]]

\* generateShortCode: b[i] = charset[time.Now().UnixNano() % len(charset)].
generateShortCode(t) == [i \in 1..CodeLen |-> charset[(t[i] % Len(charset)) + 1]]

\* The empty CustomAlias (req.CustomAlias == "").
EmptyAlias == << >>

\* A caller-supplied alias.
Promo == << "p","r","o","m","o" >>

\* Values of req.CustomAlias.
Aliases == {EmptyAlias, Promo}

\* Short codes that occur in requests and stores.
Codes == { generateShortCode(t) : t \in NanoSamples } \cup (Aliases \ {EmptyAlias})

\* time.Time.Format(time.RFC3339): the zero time prints as year 1.
FormatRFC3339(t) == IF t = ZeroTime THEN <<"0001-01-01T00:00:00Z">> ELSE <<"RFC3339", t>>

\* An unset CreatedAt string of a response.
NoTime == << >>

(* ---------------- maps ---------------- *)

\* A Go map / a table keyed by short code is a function whose domain is the set of keys present.
Has(m, k) == k \in DOMAIN m

\* m[k] = v
Put(m, k, v) == [x \in DOMAIN m \cup {k} |-> IF x = k THEN v ELSE m[x]]

\* v := m[k], the zero value when the key is missing.
Lookup(m, k, zero) == IF k \in DOMAIN m THEN m[k] ELSE zero

\* The maps over the keys in K with values in V.
Maps(K, V) == UNION { [S -> V] : S \in SUBSET K }

EmptyMap == [x \in {} |-> 0]

(* ---------------- storage-service (urls table) ---------------- *)

\* Outcome of one remote call: answered, answered after a database error, or
\* no answer (transport error, deadline exceeded).
Outcomes == {"ok", "dberr", "rpcerr"}

\* click_count of a freshly inserted row (the column default; SaveURL does not set it).
DefaultClickCount == 0

\* The INSERT branch of SaveURL's statement.
NewRow(url, t) ==
  [original_url |-> url, click_count |-> DefaultClickCount, created_at |-> t, updated_at |-> t]

\* SaveURL as a plain INSERT: a row that exists makes the statement fail on the key.
SaveURLInsertOnly(d, code, url, t, dbErr) ==
  IF dbErr
  THEN [db |-> d, resp |-> [success |-> FALSE, error |-> "db error"]]
  ELSE IF Has(d, code)
  THEN [db |-> d, resp |-> [success |-> FALSE, error |-> "duplicate key"]]
  ELSE [db |-> Put(d, code, NewRow(url, t)), resp |-> [success |-> TRUE, error |-> Empty]]

\* SaveURL as DELETE then INSERT: an existing row is replaced by a fresh one.
SaveURLReplacesRow(d, code, url, t, dbErr) ==
  IF dbErr
  THEN [db |-> d, resp |-> [success |-> FALSE, error |-> "db error"]]
  ELSE [db |-> Put(d, code, NewRow(url, t)), resp |-> [success |-> TRUE, error |-> Empty]]

\* storageServer.SaveURL: INSERT ... ON CONFLICT (short_code) DO UPDATE.
SaveURL(d, code, url, t, dbErr) ==
  IF dbErr
  THEN [db |-> d, resp |-> [success |-> FALSE, error |-> "db error"]]
  ELSE [db |-> Put(d, code,
                   IF Has(d, code)
                   THEN [d[code] EXCEPT !.original_url = url, !.updated_at = t]
                   ELSE NewRow(url, t)),
        resp |-> [success |-> TRUE, error |-> Empty]]

\* storageServer.GetURL.
GetURL(d, code, dbErr) ==
  IF dbErr
  THEN [original_url |-> Empty, found |-> FALSE, error |-> "db error"]
  ELSE IF ~Has(d, code)
  THEN [original_url |-> Empty, found |-> FALSE, error |-> Empty]
  ELSE [original_url |-> d[code].original_url, found |-> TRUE, error |-> Empty]

\* IncrementClick without the RowsAffected test: a missing row answers success.
IncrementClickUnchecked(d, code, t, dbErr) ==
  IF dbErr
  THEN [db |-> d, resp |-> [success |-> FALSE, error |-> "db error"]]
  ELSE IF ~Has(d, code)
  THEN [db |-> d, resp |-> [success |-> TRUE, error |-> Empty]]
  ELSE [db |-> Put(d, code, [d[code] EXCEPT !.click_count = @ + 1, !.updated_at = t]),
        resp |-> [success |-> TRUE, error |-> Empty]]

\* storageServer.IncrementClick: UPDATE ... WHERE short_code = $2, then RowsAffected.
IncrementClick(d, code, t, dbErr) ==
  IF dbErr
  THEN [db |-> d, resp |-> [success |-> FALSE, error |-> "db error"]]
  ELSE IF ~Has(d, code)
  THEN [db |-> d, resp |-> [success |-> FALSE, error |-> "URL not found"]]
  ELSE [db |-> Put(d, code, [d[code] EXCEPT !.click_count = @ + 1, !.updated_at = t]),
        resp |-> [success |-> TRUE, error |-> Empty]]

\* GetStats without the sql.ErrNoRows branch: a missing row answers as an empty row.
GetStatsNoRowsIgnored(d, code, dbErr) ==
  IF dbErr
  THEN [short_code |-> EmptyAlias, click_count |-> 0, created_at |-> NoTime, error |-> "db error"]
  ELSE [short_code |-> code, click_count |-> 0, created_at |-> FormatRFC3339(ZeroTime),
        error |-> Empty]

\* storageServer.GetStats.
GetStats(d, code, dbErr) ==
  IF dbErr
  THEN [short_code |-> EmptyAlias, click_count |-> 0, created_at |-> NoTime, error |-> "db error"]
  ELSE IF ~Has(d, code)
  THEN [short_code |-> EmptyAlias, click_count |-> 0, created_at |-> NoTime, error |-> "URL not found"]
  ELSE [short_code |-> code, click_count |-> d[code].click_count,
        created_at |-> FormatRFC3339(d[code].created_at), error |-> Empty]

(* ---------------- fast cache (contract of the cache-service client) ---------------- *)

\* cacheClient.Get(key) -> {value, found}.
CacheGet(c, key) ==
  IF Has(c, key) THEN [value |-> c[key], found |-> TRUE]
                 ELSE [value |-> Empty, found |-> FALSE]

\* cacheClient.Set(key, value, ttlSeconds).
CacheSet(c, key, value) == Put(c, key, value)

\* TtlSeconds of the Set issued by ShortenURL.
CreateTTL == 360

\* TtlSeconds of the Set issued by warmCache.
WarmTTL == 3600

(* ---------------- state ---------------- *)

VARIABLES
  urls,        \* urlServer.urls: short code -> original URL
  stats,       \* urlServer.stats: short code -> click count
  createdAt,   \* urlServer.createdAt: short code -> time
  mu,          \* urlServer.mu: [writer, readers]
  cache,       \* the fast cache: key -> value
  db,          \* the urls table: short_code -> row
  now,         \* the latest reading of time.Now()
  tasks,       \* detached goroutines that have not made their call yet: task -> count
  pc,          \* position of each request handler
  req,         \* the request each handler serves
  loc,         \* locals of each handler
  resp,        \* the response each handler returned last
  ops,         \* number of requests accepted so far
  hist         \* history of the run: what has been created, answered and observed

vars == << urls, stats, createdAt, mu, cache, db, now, tasks, pc, req, loc, resp, ops, hist >>

\* The readings of time.Now().
Times == 0..MaxTime

\* Detached goroutines: SaveURL and cache Set of ShortenURL, warmCache, the flush of incrementStats.
\* at is the time.Now() that the storage-service handler of the rpc has read for its
\* statement, the zero time as long as the rpc has not reached the handler.
SaveTask(c, u) == [kind |-> "save", code |-> c, url |-> u, ttl |-> 0, at |-> ZeroTime]
SetTask(c, u)  == [kind |-> "set", code |-> c, url |-> u, ttl |-> CreateTTL, at |-> ZeroTime]
WarmTask(c, u) == [kind |-> "warm", code |-> c, url |-> u, ttl |-> WarmTTL, at |-> ZeroTime]
IncrTask(c)    == [kind |-> "incr", code |-> c, url |-> Empty, ttl |-> 0, at |-> ZeroTime]

\* The rpc of k inside its storage-service handler, which read time.Now() as t.
InFlight(k, t) == [k EXCEPT !.at = t]

\* The rpc of k, before and inside its handler.
Variants(k) == {k} \cup { InFlight(k, t) : t \in Times }

TaskSet ==
  UNION { Variants(SaveTask(c, u)) : c \in Codes, u \in URLs }
  \cup { SetTask(c, u) : c \in Codes, u \in URLs }
  \cup { WarmTask(c, u) : c \in Codes, u \in URLs }
  \cup UNION { Variants(IncrTask(c)) : c \in Codes }

\* t is a possible reading of time.Now(): never earlier than the latest one.
Clock(t) == t >= now

\* go func() { ... }(): one more detached goroutine.
Spawn(b, t) == Put(b, t, Lookup(b, t, 0) + 1)

\* sync.RWMutex, unlocked.
Unlocked == [writer |-> 0, readers |-> {}]

NoResp == [kind |-> "none"]
NoReq == [op |-> "none", code |-> EmptyAlias, url |-> Empty, alias |-> EmptyAlias]
NoLoc == [shortCode |-> EmptyAlias, originalURL |-> Empty, ret |-> NoResp]
NoSeen == [created |-> Empty, generated |-> FALSE, held |-> "none", cached |-> FALSE,
           durable |-> Empty, unsaved |-> FALSE, cacheFailed |-> FALSE, failed |-> FALSE]

\* Rows another instance or an earlier run of the service left in the durable store.
InitRows == { NewRow(u, 0) : u \in OldURLs }

\* NewURLServer: empty maps. The cache and the durable store outlive the process and are shared
\* with the other replicas: they may hold a record of some code already.
Init ==
  /\ urls = EmptyMap
  /\ stats = EmptyMap
  /\ createdAt = EmptyMap
  /\ mu = Unlocked
  /\ \E c \in Codes : cache \in Maps({c}, OldURLs) /\ db \in Maps({c}, InitRows)
  /\ now = 0
  /\ tasks = [t \in TaskSet |-> 0]
  /\ pc = [p \in Procs |-> "idle"]
  /\ req = [p \in Procs |-> NoReq]
  /\ loc = [p \in Procs |-> NoLoc]
  /\ resp = [p \in Procs |-> NoResp]
  /\ ops = 0
  /\ hist = [shortened |-> EmptyMap,
             generated |-> {},
             hits |-> [c \in Codes |-> 0],
             known |-> DOMAIN cache \cup DOMAIN db,
             seen |-> [p \in Procs |-> NoSeen]]

(* ---------------- sync.RWMutex ---------------- *)

\* s.mu.Lock() can proceed.
CanLock == mu.writer = 0 /\ mu.readers = {}

\* s.mu.RLock() can proceed.
CanRLock == mu.writer = 0

Lock(p) == [mu EXCEPT !.writer = p]
RLock(p) == [mu EXCEPT !.readers = @ \cup {p}]
Unlock(p) == [mu EXCEPT !.writer = 0]
RUnlock(p) == [mu EXCEPT !.readers = @ \ {p}]

\* An arriving request is served by a new goroutine: the first free handler.
Free(p) == pc[p] = "idle" /\ \A q \in Procs : q < p => pc[q] # "idle"

\* The one SaveURL of the create of this code has been made and has left no row.
SaveFailed(code) ==
  /\ Has(hist.shortened, code)
  /\ \A k \in Variants(SaveTask(code, hist.shortened[code])) : tasks[k] = 0
  /\ ~Has(db, code)

\* What a handler observes of the tiers when its request arrives.
Observe(code) ==
  [created |-> Lookup(hist.shortened, code, Empty),
   generated |-> code \in hist.generated,
   held    |-> IF Has(urls, code) THEN "local" ELSE IF Has(db, code) THEN "durable" ELSE "none",
   cached  |-> Has(cache, code),
   durable |-> IF Has(db, code) THEN db[code].original_url ELSE Empty,
   unsaved |-> SaveFailed(code),
   cacheFailed |-> FALSE,
   failed  |-> FALSE]

(* ---------------- urlServer.ShortenURL ---------------- *)

ShortenOK(code, url) ==
  [kind |-> "shorten", shortCode |-> code, originalUrl |-> url, error |-> Empty]

ShortenError ==
  [kind |-> "shorten", shortCode |-> EmptyAlias, originalUrl |-> Empty,
   error |-> "Custom alias already exists"]

\* shortCode := generateShortCode(); if req.CustomAlias != "" { shortCode = req.CustomAlias }
PickShortCode(alias, t) == IF alias # EmptyAlias THEN alias ELSE generateShortCode(t)

\* A ShortenURL request arrives, one of at most n requests; the handler picks the code
\* and goes for the lock.
ShortenStartWithin(n, p, url, alias, t) ==
  /\ Free(p)
  /\ ops < n
  /\ ops' = ops + 1
  /\ req' = [req EXCEPT ![p] = [op |-> "shorten", code |-> EmptyAlias, url |-> url, alias |-> alias]]
  /\ loc' = [loc EXCEPT ![p] = [NoLoc EXCEPT !.shortCode = PickShortCode(alias, t)]]
  /\ hist' = [hist EXCEPT !.seen[p] = NoSeen]
  /\ pc' = [pc EXCEPT ![p] = "sh_lock"]
  /\ UNCHANGED << urls, stats, createdAt, mu, cache, db, now, tasks, resp >>

\* ShortenURL requests arrive until MaxOps requests have been accepted.
ShortenStart(p, url, alias, t) == ShortenStartWithin(MaxOps, p, url, alias, t)

\* s.mu.Lock(); defer s.mu.Unlock()
ShortenLock(p) ==
  /\ pc[p] = "sh_lock"
  /\ CanLock
  /\ mu' = Lock(p)
  /\ pc' = [pc EXCEPT ![p] = "sh_body"]
  /\ UNCHANGED << urls, stats, createdAt, cache, db, now, tasks, req, loc, resp, ops, hist >>

\* The code exists: the error response, nothing else (and the deferred Unlock).
ShortenConflict(p) ==
  /\ resp' = [resp EXCEPT ![p] = ShortenError]
  /\ mu' = Unlock(p)
  /\ pc' = [pc EXCEPT ![p] = "idle"]
  /\ loc' = [loc EXCEPT ![p] = NoLoc]
  /\ UNCHANGED << urls, stats, createdAt, cache, db, now, tasks, req, ops, hist >>

\* The three inserts, the two detached goroutines, the success response (and the deferred Unlock).
ShortenInsert(p, t) ==
  LET code == loc[p].shortCode
      url  == req[p].url
  IN /\ urls' = Put(urls, code, url)
     /\ stats' = Put(stats, code, 0)
     /\ createdAt' = Put(createdAt, code, t)
     /\ now' = t
     /\ tasks' = Spawn(Spawn(tasks, SaveTask(code, url)), SetTask(code, url))
     /\ resp' = [resp EXCEPT ![p] = ShortenOK(code, url)]
     /\ mu' = Unlock(p)
     /\ pc' = [pc EXCEPT ![p] = "idle"]
     /\ hist' = [hist EXCEPT !.shortened = Put(@, code, url),
                             !.generated = IF req[p].alias = EmptyAlias THEN @ \cup {code} ELSE @,
                             !.known = @ \cup {code}]
     /\ loc' = [loc EXCEPT ![p] = NoLoc]
     /\ UNCHANGED << cache, db, req, ops >>

\* ShortenURL under the lock: if _, exists := s.urls[shortCode]; exists { error } else insert.
ShortenBody(p, t) ==
  /\ pc[p] = "sh_body"
  /\ Clock(t)
  /\ IF Has(urls, loc[p].shortCode) THEN ShortenConflict(p) ELSE ShortenInsert(p, t)

(* ---------------- urlServer.incrementStats ---------------- *)

\* s.mu.Lock() of incrementStats.
IncLock(p) ==
  /\ pc[p] = "inc_lock"
  /\ CanLock
  /\ mu' = Lock(p)
  /\ pc' = [pc EXCEPT ![p] = "inc_body"]
  /\ UNCHANGED << urls, stats, createdAt, cache, db, now, tasks, req, loc, resp, ops, hist >>

\* s.stats[shortCode]++ (a missing key reads as 0).
Incremented(m, code) == Put(m, code, Lookup(m, code, 0) + 1)

\* incrementStats making its storageClient.IncrementClick call inline: the handler waits
\* for the answer before GetOriginalURL returns.
incrementStatsAwaitsFlush(p) ==
  /\ pc[p] = "inc_body"
  /\ stats' = Incremented(stats, req[p].code)
  /\ mu' = Unlock(p)
  /\ pc' = [pc EXCEPT ![p] = "inc_flush"]
  /\ hist' = [hist EXCEPT !.hits[req[p].code] = @ + 1]
  /\ UNCHANGED << urls, createdAt, cache, db, now, tasks, req, loc, resp, ops >>

\* incrementStats: the increment, Unlock, the detached IncrementClick; then GetOriginalURL returns its hit.
incrementStats(p) ==
  /\ pc[p] = "inc_body"
  /\ stats' = Incremented(stats, req[p].code)
  /\ mu' = Unlock(p)
  /\ tasks' = Spawn(tasks, IncrTask(req[p].code))
  /\ resp' = [resp EXCEPT ![p] = loc[p].ret]
  /\ pc' = [pc EXCEPT ![p] = "idle"]
  /\ hist' = [hist EXCEPT !.hits[req[p].code] = @ + 1]
  /\ loc' = [loc EXCEPT ![p] = NoLoc]
  /\ UNCHANGED << urls, createdAt, cache, db, now, req, ops >>

(* ---------------- urlServer.GetOriginalURL ---------------- *)

GetFound(url) == [kind |-> "get", originalUrl |-> url, found |-> TRUE]
GetNotFound == [kind |-> "get", originalUrl |-> Empty, found |-> FALSE]

\* A GetOriginalURL request arrives, one of at most n requests; the handler calls
\* cacheClient.Get.
GetStartWithin(n, p, code) ==
  /\ Free(p)
  /\ ops < n
  /\ ops' = ops + 1
  /\ req' = [req EXCEPT ![p] = [op |-> "get", code |-> code, url |-> Empty, alias |-> EmptyAlias]]
  /\ loc' = [loc EXCEPT ![p] = NoLoc]
  /\ hist' = [hist EXCEPT !.seen[p] = Observe(code)]
  /\ pc' = [pc EXCEPT ![p] = "g_cache"]
  /\ UNCHANGED << urls, stats, createdAt, mu, cache, db, now, tasks, resp >>

\* GetOriginalURL requests arrive until MaxOps requests have been accepted.
GetStart(p, code) == GetStartWithin(MaxOps, p, code)

\* GetOriginalURL answering found=false as soon as cacheClient.Get reports a miss.
GetCacheReturnMissEnds(p, out) ==
  LET r == CacheGet(cache, req[p].code)
  IN /\ pc[p] = "g_cache"
     /\ IF out = "ok" /\ r.found
        THEN /\ loc' = [loc EXCEPT ![p].ret = GetFound(r.value)]
             /\ pc' = [pc EXCEPT ![p] = "inc_lock"]
             /\ resp' = resp
        ELSE IF out = "ok"
        THEN /\ loc' = [loc EXCEPT ![p] = NoLoc]
             /\ pc' = [pc EXCEPT ![p] = "idle"]
             /\ resp' = [resp EXCEPT ![p] = GetNotFound]
        ELSE /\ loc' = loc
             /\ pc' = [pc EXCEPT ![p] = "g_rlock"]
             /\ resp' = resp
     /\ hist' = [hist EXCEPT !.seen[p].cacheFailed = (out # "ok")]
     /\ UNCHANGED << urls, stats, createdAt, mu, cache, db, now, tasks, req, ops >>

\* GetOriginalURL returning a fast-cache hit without the call of incrementStats.
GetCacheReturnNoIncrement(p, out) ==
  LET r == CacheGet(cache, req[p].code)
  IN /\ pc[p] = "g_cache"
     /\ IF out = "ok" /\ r.found
        THEN /\ loc' = [loc EXCEPT ![p] = NoLoc]
             /\ pc' = [pc EXCEPT ![p] = "idle"]
             /\ resp' = [resp EXCEPT ![p] = GetFound(r.value)]
        ELSE /\ loc' = loc
             /\ pc' = [pc EXCEPT ![p] = "g_rlock"]
             /\ resp' = resp
     /\ hist' = [hist EXCEPT !.seen[p].cacheFailed = (out # "ok")]
     /\ UNCHANGED << urls, stats, createdAt, mu, cache, db, now, tasks, req, ops >>

\* 1. cacheClient.Get answers (or fails): a hit goes to incrementStats, anything else to the in-memory store.
GetCacheReturn(p, out) ==
  LET r == CacheGet(cache, req[p].code)
  IN /\ pc[p] = "g_cache"
     /\ IF out = "ok" /\ r.found
        THEN /\ loc' = [loc EXCEPT ![p].ret = GetFound(r.value)]
             /\ pc' = [pc EXCEPT ![p] = "inc_lock"]
        ELSE /\ loc' = loc
             /\ pc' = [pc EXCEPT ![p] = "g_rlock"]
     /\ hist' = [hist EXCEPT !.seen[p].cacheFailed = (out # "ok")]
     /\ UNCHANGED << urls, stats, createdAt, mu, cache, db, now, tasks, req, resp, ops >>

\* 2. s.mu.RLock()
GetRLock(p) ==
  /\ pc[p] = "g_rlock"
  /\ CanRLock
  /\ mu' = RLock(p)
  /\ pc' = [pc EXCEPT ![p] = "g_read"]
  /\ UNCHANGED << urls, stats, createdAt, cache, db, now, tasks, req, loc, resp, ops, hist >>

\* GetOriginalURL that does not consult s.urls: every cache miss goes on to storageClient.GetURL.
GetReadSkipsLocal(p) ==
  /\ pc[p] = "g_read"
  /\ mu' = RUnlock(p)
  /\ pc' = [pc EXCEPT ![p] = "g_storage"]
  /\ UNCHANGED << urls, stats, createdAt, cache, db, now, tasks, req, loc, resp, ops, hist >>

\* GetOriginalURL with defer s.mu.RUnlock(): the read lock is kept over storageClient.GetURL.
GetReadKeepsRLock(p) ==
  LET code == req[p].code
  IN /\ pc[p] = "g_read"
     /\ IF Has(urls, code)
        THEN /\ mu' = RUnlock(p)
             /\ loc' = [loc EXCEPT ![p].originalURL = urls[code], ![p].ret = GetFound(urls[code])]
             /\ tasks' = Spawn(tasks, WarmTask(code, urls[code]))
             /\ pc' = [pc EXCEPT ![p] = "inc_lock"]
        ELSE /\ mu' = mu
             /\ loc' = loc
             /\ tasks' = tasks
             /\ pc' = [pc EXCEPT ![p] = "g_storage"]
     /\ UNCHANGED << urls, stats, createdAt, cache, db, now, req, resp, ops, hist >>

\* originalURL, exists := s.urls[code]; RUnlock; a hit starts warmCache and goes to incrementStats,
\* a miss calls storageClient.GetURL.
GetRead(p) ==
  LET code == req[p].code
  IN /\ pc[p] = "g_read"
     /\ mu' = RUnlock(p)
     /\ IF Has(urls, code)
        THEN /\ loc' = [loc EXCEPT ![p].originalURL = urls[code], ![p].ret = GetFound(urls[code])]
             /\ tasks' = Spawn(tasks, WarmTask(code, urls[code]))
             /\ pc' = [pc EXCEPT ![p] = "inc_lock"]
        ELSE /\ loc' = loc
             /\ tasks' = tasks
             /\ pc' = [pc EXCEPT ![p] = "g_storage"]
     /\ UNCHANGED << urls, stats, createdAt, cache, db, now, req, resp, ops, hist >>

\* 3. storageClient.GetURL answers (or fails): found goes on to materialize, anything else returns found=false.
GetStorageReturn(p, out) ==
  LET r == GetURL(db, req[p].code, out = "dberr")
  IN /\ pc[p] = "g_storage"
     /\ hist' = [hist EXCEPT !.seen[p].failed = (out # "ok")]
     /\ IF out # "rpcerr" /\ r.found
        THEN /\ loc' = [loc EXCEPT ![p].originalURL = r.original_url]
             /\ pc' = [pc EXCEPT ![p] = "g_mat_lock"]
             /\ resp' = resp
        ELSE /\ loc' = [loc EXCEPT ![p] = NoLoc]
             /\ pc' = [pc EXCEPT ![p] = "idle"]
             /\ resp' = [resp EXCEPT ![p] = GetNotFound]
     /\ UNCHANGED << urls, stats, createdAt, mu, cache, db, now, tasks, req, ops >>

\* s.mu.Lock() of the storage hit.
GetMatLock(p) ==
  /\ pc[p] = "g_mat_lock"
  /\ CanLock
  /\ mu' = Lock(p)
  /\ pc' = [pc EXCEPT ![p] = "g_mat"]
  /\ UNCHANGED << urls, stats, createdAt, cache, db, now, tasks, req, loc, resp, ops, hist >>

\* The storage hit is written into the three maps; Unlock; warmCache starts; on to incrementStats.
GetMaterialize(p, t) ==
  LET code == req[p].code
      url  == loc[p].originalURL
  IN /\ pc[p] = "g_mat"
     /\ Clock(t)
     /\ urls' = Put(urls, code, url)
     /\ stats' = Put(stats, code, 0)
     /\ createdAt' = Put(createdAt, code, t)
     /\ now' = t
     /\ mu' = Unlock(p)
     /\ tasks' = Spawn(tasks, WarmTask(code, url))
     /\ loc' = [loc EXCEPT ![p].ret = GetFound(url)]
     /\ pc' = [pc EXCEPT ![p] = "inc_lock"]
     /\ UNCHANGED << cache, db, req, resp, ops, hist >>

(* ---------------- urlServer.GetURLStats ---------------- *)

StatsOK(code, n, t) ==
  [kind |-> "stats", shortCode |-> code, clickCount |-> n, createdAt |-> t, error |-> Empty]

StatsError ==
  [kind |-> "stats", shortCode |-> EmptyAlias, clickCount |-> 0, createdAt |-> NoTime,
   error |-> "URL not found"]

\* A GetURLStats request arrives; the handler goes for the read lock.
StatsStart(p, code) ==
  /\ Free(p)
  /\ ops < MaxOps
  /\ ops' = ops + 1
  /\ req' = [req EXCEPT ![p] = [op |-> "stats", code |-> code, url |-> Empty, alias |-> EmptyAlias]]
  /\ loc' = [loc EXCEPT ![p] = NoLoc]
  /\ hist' = [hist EXCEPT !.seen[p] = Observe(code)]
  /\ pc' = [pc EXCEPT ![p] = "s_rlock"]
  /\ UNCHANGED << urls, stats, createdAt, mu, cache, db, now, tasks, resp >>

\* s.mu.RLock()
StatsRLock(p) ==
  /\ pc[p] = "s_rlock"
  /\ CanRLock
  /\ mu' = RLock(p)
  /\ pc' = [pc EXCEPT ![p] = "s_read"]
  /\ UNCHANGED << urls, stats, createdAt, cache, db, now, tasks, req, loc, resp, ops, hist >>

\* clickCount, exists := s.stats[code]; createdAt := s.createdAt[code]; RUnlock;
\* the local answer if exists, else storageClient.GetStats is called.
StatsRead(p) ==
  LET code == req[p].code
  IN /\ pc[p] = "s_read"
     /\ mu' = RUnlock(p)
     /\ IF Has(stats, code)
        THEN /\ resp' = [resp EXCEPT ![p] =
                           StatsOK(code, stats[code],
                                   FormatRFC3339(Lookup(createdAt, code, ZeroTime)))]
             /\ pc' = [pc EXCEPT ![p] = "idle"]
        ELSE /\ resp' = resp
             /\ pc' = [pc EXCEPT ![p] = "s_storage"]
     /\ UNCHANGED << urls, stats, createdAt, cache, db, now, tasks, req, loc, ops, hist >>

\* storageClient.GetStats answers (or fails).
StatsStorageReturn(p, out) ==
  LET r == GetStats(db, req[p].code, out = "dberr")
  IN /\ pc[p] = "s_storage"
     /\ resp' = [resp EXCEPT ![p] =
                   IF out # "rpcerr" /\ r.error = Empty
                   THEN StatsOK(req[p].code, r.click_count, r.created_at)
                   ELSE StatsError]
     /\ pc' = [pc EXCEPT ![p] = "idle"]
     /\ hist' = [hist EXCEPT !.seen[p].failed = (out # "ok")]
     /\ UNCHANGED << urls, stats, createdAt, mu, cache, db, now, tasks, req, loc, ops >>

(* ---------------- detached goroutines ---------------- *)

\* The goroutine is gone once its call has returned or timed out.
Finish(b, t) == [b EXCEPT ![t] = @ - 1]

\* The SaveURL or IncrementClick rpc of a detached goroutine reaches its handler in the
\* storage-service, which reads time.Now() as an argument of its statement; the statement
\* itself runs later, after what other handlers execute meanwhile.
StorageArrive(k, t) ==
  /\ k.kind \in {"save", "incr"}
  /\ k.at = ZeroTime
  /\ tasks[k] > 0
  /\ Clock(t)
  /\ now' = t
  /\ tasks' = Spawn(Finish(tasks, k), InFlight(k, t))
  /\ UNCHANGED << urls, stats, createdAt, mu, cache, db, pc, req, loc, resp, ops, hist >>

\* "Persist to storage (async)": one storageClient.SaveURL, its error only logged. The
\* statement of a handler runs with the time the handler read; a call that fails in
\* transit or runs into its deadline changes nothing.
PersistTask(k, out) ==
  /\ k.kind = "save"
  /\ tasks[k] > 0
  /\ k.at = ZeroTime => out = "rpcerr"
  /\ tasks' = Finish(tasks, k)
  /\ db' = IF out = "rpcerr" THEN db ELSE SaveURL(db, k.code, k.url, k.at, out = "dberr").db
  /\ UNCHANGED << urls, stats, createdAt, mu, cache, now, pc, req, loc, resp, ops, hist >>

\* "Cache the URL (async)": one cacheClient.Set with TtlSeconds 360, its error only logged.
CacheTask(k, out) ==
  /\ k.kind = "set"
  /\ tasks[k] > 0
  /\ tasks' = Finish(tasks, k)
  /\ cache' = IF out = "ok" THEN CacheSet(cache, k.code, k.url) ELSE cache
  /\ UNCHANGED << urls, stats, createdAt, mu, db, now, pc, req, loc, resp, ops, hist >>

\* warmCache: one cacheClient.Set with TtlSeconds 3600, its error only logged.
warmCache(k, out) ==
  /\ k.kind = "warm"
  /\ tasks[k] > 0
  /\ tasks' = Finish(tasks, k)
  /\ cache' = IF out = "ok" THEN CacheSet(cache, k.code, k.url) ELSE cache
  /\ UNCHANGED << urls, stats, createdAt, mu, db, now, pc, req, loc, resp, ops, hist >>

\* "Update storage stats async": one storageClient.IncrementClick, its error only logged.
FlushTask(k, out) ==
  /\ k.kind = "incr"
  /\ tasks[k] > 0
  /\ k.at = ZeroTime => out = "rpcerr"
  /\ tasks' = Finish(tasks, k)
  /\ db' = IF out = "rpcerr" THEN db ELSE IncrementClick(db, k.code, k.at, out = "dberr").db
  /\ UNCHANGED << urls, stats, createdAt, mu, cache, now, pc, req, loc, resp, ops, hist >>

(* ---------------- environment ---------------- *)

\* A cache entry reaches its time to live.
CacheExpire(c) ==
  /\ Has(cache, c)
  /\ cache' = [x \in DOMAIN cache \ {c} |-> cache[x]]
  /\ UNCHANGED << urls, stats, createdAt, mu, db, now, tasks, pc, req, loc, resp, ops, hist >>

(* ---------------- specification ---------------- *)

Next ==
  \/ \E p \in Procs, u \in URLs, a \in Aliases, t \in NanoSamples : ShortenStart(p, u, a, t)
  \/ \E p \in Procs : ShortenLock(p)
  \/ \E p \in Procs, t \in Times : ShortenBody(p, t)
  \/ \E p \in Procs, c \in Codes : GetStart(p, c)
  \/ \E p \in Procs, out \in {"ok", "rpcerr"} : GetCacheReturn(p, out)
  \/ \E p \in Procs : GetRLock(p)
  \/ \E p \in Procs : GetRead(p)
  \/ \E p \in Procs, out \in Outcomes : GetStorageReturn(p, out)
  \/ \E p \in Procs : GetMatLock(p)
  \/ \E p \in Procs, t \in Times : GetMaterialize(p, t)
  \/ \E p \in Procs : IncLock(p)
  \/ \E p \in Procs : incrementStats(p)
  \/ \E p \in Procs, c \in Codes : StatsStart(p, c)
  \/ \E p \in Procs : StatsRLock(p)
  \/ \E p \in Procs : StatsRead(p)
  \/ \E p \in Procs, out \in Outcomes : StatsStorageReturn(p, out)
  \/ \E k \in TaskSet, t \in Times : StorageArrive(k, t)
  \/ \E k \in TaskSet, out \in Outcomes : PersistTask(k, out)
  \/ \E k \in TaskSet, out \in {"ok", "rpcerr"} : CacheTask(k, out)
  \/ \E k \in TaskSet, out \in {"ok", "rpcerr"} : warmCache(k, out)
  \/ \E k \in TaskSet, out \in Outcomes : FlushTask(k, out)
  \/ \E c \in Codes : CacheExpire(c)

Spec == Init /\ [][Next]_vars

(* ---------------- storage-service on its own ---------------- *)

\* No rpc has been served yet.
NoCall == [op |-> "none", code |-> EmptyAlias, url |-> Empty, at |-> ZeroTime, dbErr |-> FALSE,
           before |-> EmptyMap, resp |-> NoResp]

\* The storage-service starts on an empty urls table; tasks holds the SaveURL and
\* IncrementClick rpcs whose handler has read the clock and not yet run its statement,
\* hist the rpc served last, the table as it was before it, and its response.
StorageInit ==
  /\ db = EmptyMap
  /\ now = 0
  /\ hist = NoCall
  /\ urls = EmptyMap /\ stats = EmptyMap /\ createdAt = EmptyMap /\ mu = Unlocked
  /\ cache = EmptyMap
  /\ tasks = [t \in TaskSet |-> 0]
  /\ pc = [p \in Procs |-> "idle"]
  /\ req = [p \in Procs |-> NoReq]
  /\ loc = [p \in Procs |-> NoLoc]
  /\ resp = [p \in Procs |-> NoResp]
  /\ ops = 0

\* Number of rpcs counted in b.
Total(b) == BagCardinality([k \in {x \in DOMAIN b : b[x] > 0} |-> b[k]])

\* A SaveURL or IncrementClick rpc of some client reaches its handler, which reads
\* time.Now() as an argument of its statement.
StorageReceive(k, t) ==
  /\ k.kind \in {"save", "incr"}
  /\ k.at = ZeroTime
  /\ Total(tasks) < MaxInFlight
  /\ Clock(t)
  /\ now' = t
  /\ tasks' = Spawn(tasks, InFlight(k, t))
  /\ UNCHANGED << urls, stats, createdAt, mu, cache, db, pc, req, loc, resp, ops, hist >>

\* rpc SaveURL: the statement of a handler runs, with the time the handler read.
StorageSaveURL(k, dbErr) ==
  LET r == SaveURL(db, k.code, k.url, k.at, dbErr)
  IN /\ k.kind = "save"
     /\ k.at # ZeroTime
     /\ tasks[k] > 0
     /\ tasks' = Finish(tasks, k)
     /\ db' = r.db
     /\ hist' = [op |-> "SaveURL", code |-> k.code, url |-> k.url, at |-> k.at,
                 dbErr |-> dbErr, before |-> db, resp |-> r.resp]
     /\ UNCHANGED << urls, stats, createdAt, mu, cache, now, pc, req, loc, resp, ops >>

\* rpc GetURL.
StorageGetURL(code, dbErr) ==
  /\ hist' = [op |-> "GetURL", code |-> code, url |-> Empty, at |-> ZeroTime,
              dbErr |-> dbErr, before |-> db, resp |-> GetURL(db, code, dbErr)]
  /\ UNCHANGED << urls, stats, createdAt, mu, cache, db, now, tasks, pc, req, loc, resp, ops >>

\* rpc IncrementClick: the statement of a handler runs, with the time the handler read.
StorageIncrementClick(k, dbErr) ==
  LET r == IncrementClick(db, k.code, k.at, dbErr)
  IN /\ k.kind = "incr"
     /\ k.at # ZeroTime
     /\ tasks[k] > 0
     /\ Has(db, k.code) => db[k.code].click_count < MaxClicks
     /\ tasks' = Finish(tasks, k)
     /\ db' = r.db
     /\ hist' = [op |-> "IncrementClick", code |-> k.code, url |-> Empty, at |-> k.at,
                 dbErr |-> dbErr, before |-> db, resp |-> r.resp]
     /\ UNCHANGED << urls, stats, createdAt, mu, cache, now, pc, req, loc, resp, ops >>

\* rpc GetStats.
StorageGetStats(code, dbErr) ==
  /\ hist' = [op |-> "GetStats", code |-> code, url |-> Empty, at |-> ZeroTime,
              dbErr |-> dbErr, before |-> db, resp |-> GetStats(db, code, dbErr)]
  /\ UNCHANGED << urls, stats, createdAt, mu, cache, db, now, tasks, pc, req, loc, resp, ops >>

\* The rpcs of the storage-service, called in any order by any client.
StorageNext ==
  \/ \E k \in TaskSet, t \in Times : StorageReceive(k, t)
  \/ \E k \in TaskSet, e \in BOOLEAN : StorageSaveURL(k, e)
  \/ \E c \in Codes, e \in BOOLEAN : StorageGetURL(c, e)
  \/ \E k \in TaskSet, e \in BOOLEAN : StorageIncrementClick(k, e)
  \/ \E c \in Codes, e \in BOOLEAN : StorageGetStats(c, e)

StorageSpec == StorageInit /\ [][StorageNext]_vars

(* ---------------- ShortenURL with generated codes ---------------- *)

\* Readings of time.Now().UnixNano(): both ends of the alphabet, a wrap-around, a wall-clock value.
NanoReadings == {0, 61, 62, 1700000000}

\* The CodeLen successive readings of one generateShortCode call.
NanoTuples ==
  { t \in [1..CodeLen -> NanoReadings] : \A i \in 1..(CodeLen - 1) : t[i] <= t[i + 1] }

\* A new process in front of an empty fast cache and an empty urls table.
GeneratorInit ==
  /\ urls = EmptyMap /\ stats = EmptyMap /\ createdAt = EmptyMap /\ mu = Unlocked
  /\ cache = EmptyMap /\ db = EmptyMap
  /\ now = 0
  /\ tasks = [t \in TaskSet |-> 0]
  /\ pc = [p \in Procs |-> "idle"]
  /\ req = [p \in Procs |-> NoReq]
  /\ loc = [p \in Procs |-> NoLoc]
  /\ resp = [p \in Procs |-> NoResp]
  /\ ops = 0
  /\ hist = [shortened |-> EmptyMap, generated |-> {}, hits |-> [c \in Codes |-> 0],
             known |-> {}, seen |-> [p \in Procs |-> NoSeen]]

\* ShortenURL requests without custom alias, their codes generated from any readings.
GeneratorNext ==
  \/ \E p \in Procs, u \in URLs, t \in NanoTuples : ShortenStart(p, u, EmptyAlias, t)
  \/ \E p \in Procs : ShortenLock(p)
  \/ \E p \in Procs, t \in Times : ShortenBody(p, t)

GeneratorSpec == GeneratorInit /\ [][GeneratorNext]_vars

(* ---------------- scheduling ---------------- *)

\* The steps of handler p that wait for no answer from outside: taking the lock once it
\* is free and the code under it. The Go scheduler runs a runnable goroutine eventually.
LocalStep(p) ==
  \/ ShortenLock(p)
  \/ \E t \in Times : ShortenBody(p, t)
  \/ GetRLock(p)
  \/ GetRead(p)
  \/ GetMatLock(p)
  \/ \E t \in Times : GetMaterialize(p, t)
  \/ IncLock(p)
  \/ incrementStats(p)
  \/ StatsRLock(p)
  \/ StatsRead(p)

\* The call of a detached goroutine ends: each is made under context.WithTimeout of 3 seconds.
DetachedStep ==
  \/ \E k \in TaskSet, t \in Times : StorageArrive(k, t)
  \/ \E k \in TaskSet, out \in Outcomes : PersistTask(k, out)
  \/ \E k \in TaskSet, out \in {"ok", "rpcerr"} : CacheTask(k, out)
  \/ \E k \in TaskSet, out \in {"ok", "rpcerr"} : warmCache(k, out)
  \/ \E k \in TaskSet, out \in Outcomes : FlushTask(k, out)

\* Runs in which every runnable goroutine is scheduled and every call that has a deadline
\* ends. The calls on the request path (cacheClient.Get, storageClient.GetURL,
\* storageClient.GetStats) are made with the context of the request, which sets no deadline:
\* they end when the downstream answers or the transport fails, which nothing guarantees.
LiveSpec ==
  /\ Spec
  /\ \A p \in Procs : WF_vars(LocalStep(p))
  /\ WF_vars(DetachedStep)

\* Runs in which every runnable handler is scheduled, while the calls of the detached
\* goroutines may stay unanswered for as long as the run lasts.
StalledPropagationSpec ==
  /\ Spec
  /\ \A p \in Procs : WF_vars(LocalStep(p))

(* ---------------- runs without failures ---------------- *)

\* The steps of the service when every outbound call is answered without error.
ReliableNext ==
  \/ \E p \in Procs, u \in URLs, a \in Aliases, t \in NanoSamples : ShortenStart(p, u, a, t)
  \/ \E p \in Procs : ShortenLock(p)
  \/ \E p \in Procs, t \in Times : ShortenBody(p, t)
  \/ \E p \in Procs, c \in Codes : GetStart(p, c)
  \/ \E p \in Procs : GetCacheReturn(p, "ok")
  \/ \E p \in Procs : GetRLock(p)
  \/ \E p \in Procs : GetRead(p)
  \/ \E p \in Procs : GetStorageReturn(p, "ok")
  \/ \E p \in Procs : GetMatLock(p)
  \/ \E p \in Procs, t \in Times : GetMaterialize(p, t)
  \/ \E p \in Procs : IncLock(p)
  \/ \E p \in Procs : incrementStats(p)
  \/ \E p \in Procs, c \in Codes : StatsStart(p, c)
  \/ \E p \in Procs : StatsRLock(p)
  \/ \E p \in Procs : StatsRead(p)
  \/ \E p \in Procs : StatsStorageReturn(p, "ok")
  \/ \E k \in TaskSet, t \in Times : StorageArrive(k, t)
  \/ \E k \in TaskSet : PersistTask(k, "ok")
  \/ \E k \in TaskSet : CacheTask(k, "ok")
  \/ \E k \in TaskSet : warmCache(k, "ok")
  \/ \E k \in TaskSet : FlushTask(k, "ok")
  \/ \E c \in Codes : CacheExpire(c)

ReliableSpec == Init /\ [][ReliableNext]_vars

(* ---------------- requests on one custom alias ---------------- *)

\* The steps of the service when up to MaxAliasOps ShortenURL and GetOriginalURL requests,
\* all for the custom alias Promo, arrive and every outbound call is answered without error.
AliasNext ==
  \/ \E p \in Procs, u \in URLs, t \in NanoSamples :
       ShortenStartWithin(MaxAliasOps, p, u, Promo, t)
  \/ \E p \in Procs : ShortenLock(p)
  \/ \E p \in Procs, t \in Times : ShortenBody(p, t)
  \/ \E p \in Procs : GetStartWithin(MaxAliasOps, p, Promo)
  \/ \E p \in Procs : GetCacheReturn(p, "ok")
  \/ \E p \in Procs : GetRLock(p)
  \/ \E p \in Procs : GetRead(p)
  \/ \E p \in Procs : GetStorageReturn(p, "ok")
  \/ \E p \in Procs : GetMatLock(p)
  \/ \E p \in Procs, t \in Times : GetMaterialize(p, t)
  \/ \E p \in Procs : IncLock(p)
  \/ \E p \in Procs : incrementStats(p)
  \/ \E k \in TaskSet, t \in Times : StorageArrive(k, t)
  \/ \E k \in TaskSet : PersistTask(k, "ok")
  \/ \E k \in TaskSet : CacheTask(k, "ok")
  \/ \E k \in TaskSet : warmCache(k, "ok")
  \/ \E k \in TaskSet : FlushTask(k, "ok")

AliasSpec == Init /\ [][AliasNext]_vars

(* ---------------- properties ---------------- *)

\* The in-process click counter of a code (0 while the code has no entry).
Count(c) == Lookup(stats, c, 0)

\* Handler p has returned the response of its request req[p].
Returned(p, op) == pc[p] = "idle" /\ req[p].op = op /\ resp[p].kind = op

\* Handler p returns from ShortenURL in this step.
ShortenReturns(p) == pc[p] = "sh_body" /\ pc'[p] = "idle"

\* C1: a GetOriginalURL that starts after ShortenURL(u) without alias returned code c
\* returns found=true with originalURL u.
ReadYourWrite ==
  \A p \in Procs :
    (Returned(p, "get") /\ hist.seen[p].generated)
      => resp[p] = GetFound(hist.seen[p].created)

\* The first ShortenURL with a custom alias to reach the check succeeds and records its URL.
FirstAliasCreateSucceeds ==
  [][\A p \in Procs :
       (ShortenReturns(p) /\ req[p].alias # EmptyAlias /\ ~Has(hist.shortened, req[p].alias))
         => /\ resp'[p] = ShortenOK(req[p].alias, req[p].url)
            /\ Has(urls', req[p].alias) /\ urls'[req[p].alias] = req[p].url]_vars

\* A ShortenURL with a custom alias that an earlier ShortenURL created returns "Custom
\* alias already exists", starts no task, leaves the three maps as they are, and the
\* local record of the alias is still the one of the first create.
LaterAliasCreateRefused ==
  [][\A p \in Procs :
       (ShortenReturns(p) /\ req[p].alias # EmptyAlias /\ Has(hist.shortened, req[p].alias))
         => /\ resp'[p] = ShortenError
            /\ tasks' = tasks
            /\ urls' = urls /\ stats' = stats /\ createdAt' = createdAt
            /\ Has(urls', req[p].alias)
            /\ urls'[req[p].alias] = hist.shortened[req[p].alias]]_vars

\* C2: of the ShortenURL calls of one process with the same custom alias exactly one
\* succeeds, the first; every other one returns "Custom alias already exists", starts no
\* task and leaves the local record, the counter and the creation time of the alias as
\* they are, the record being the one the first create wrote.
ExactlyOneAliasCreate == FirstAliasCreateSucceeds /\ LaterAliasCreateRefused

\* The request of handler p arrived when only the durable store held its code.
DurableOnly(p) == hist.seen[p].held = "durable" /\ ~hist.seen[p].cached

\* C3: a GetOriginalURL for a code held only by the durable store returns found=true
\* with the durable URL, and local state holds the mapping when it returns; the storage
\* hit starts one warmCache for the mapping; every started warmCache eventually makes its
\* call; and a warmCache whose Set succeeds leaves the mapping in the fast cache.
DurableOnlyResolves ==
  /\ [](\A p \in Procs :
          (Returned(p, "get") /\ DurableOnly(p))
            => /\ resp[p] = GetFound(hist.seen[p].durable)
               /\ Has(urls, req[p].code)
               /\ urls[req[p].code] = hist.seen[p].durable)
  /\ [][\A p \in Procs :
          (pc[p] = "g_mat" /\ pc'[p] # "g_mat")
            => tasks' = Spawn(tasks, WarmTask(req[p].code, loc[p].originalURL))]_vars
  /\ \A c \in Codes, u \in URLs :
       (tasks[WarmTask(c, u)] > 0) ~> (tasks[WarmTask(c, u)] = 0)
  /\ [][\A k \in TaskSet :
          warmCache(k, "ok") => (Has(cache', k.code) /\ cache'[k.code] = k.url)]_vars

\* No request is being served.
Quiescent == \A p \in Procs : pc[p] = "idle"

\* C4: once the resolves of a code (one that ShortenURL did not create meanwhile) have
\* returned, its click counter has risen from 0 by the number of those that found it.
ExactClickCount ==
  \A c \in Codes :
    (Quiescent /\ ~Has(hist.shortened, c)) => Count(c) = hist.hits[c]

\* C5: no step lowers the click counter of a code or removes it.
CounterMonotonic ==
  [][\A c \in Codes :
       Has(stats, c) => (Has(stats', c) /\ stats'[c] >= stats[c])]_vars

\* C6: no step changes or removes the URL of a local record.
LocalRecordImmutable ==
  [][\A c \in Codes :
       Has(urls, c) => (Has(urls', c) /\ urls'[c] = urls[c])]_vars

\* C7: a ShortenURL for a code that has a record in local state or in the durable store
\* fails, and no step changes the URL of a durable row.
CreationNeverOverwrites ==
  [][/\ \A p \in Procs :
          (ShortenReturns(p) /\ (Has(urls, loc[p].shortCode) \/ Has(db, loc[p].shortCode)))
            => resp'[p] = ShortenError
     /\ \A c \in Codes :
          Has(db, c) => (Has(db', c) /\ db'[c].original_url = db[c].original_url)]_vars

\* C8: whenever no writer holds the lock, the three maps have the same keys.
MapsInStep ==
  mu.writer = 0 => (DOMAIN urls = DOMAIN stats /\ DOMAIN stats = DOMAIN createdAt)

\* C9 as stated: a GetOriginalURL whose code local state or the durable store held
\* when it arrived returns found=true.
FoundWhenHeld ==
  \A p \in Procs :
    (Returned(p, "get") /\ hist.seen[p].held # "none") => resp[p].found

\* C10: GetURLStats for a code that no tier ever held returns "URL not found", and no
\* step of GetURLStats changes the three maps.
StatsNotFound ==
  /\ [](\A p \in Procs :
          (Returned(p, "stats") /\ req[p].code \notin hist.known) => resp[p] = StatsError)
  /\ [][\A p \in Procs :
          (req[p].op = "stats" /\ pc[p] # "idle" /\ pc'[p] # pc[p])
            => (urls' = urls /\ stats' = stats /\ createdAt' = createdAt)]_vars

\* C10 witness: after a create and its propagation for another code, GetURLStats of a
\* never-created code has returned "URL not found".
StatsNotFoundWitness ==
  \E p \in Procs :
    /\ Returned(p, "stats") /\ req[p].code \notin hist.known
    /\ resp[p] = StatsError
    /\ \E c \in Codes : c # req[p].code /\ Has(hist.shortened, c) /\ Has(db, c)

\* Handler p has a storageClient.GetURL call in flight or is past its answer.
AtDurableTier(p) == pc[p] \in {"g_storage", "g_mat_lock", "g_mat"}

\* C11: a GetOriginalURL for a code that a ShortenURL of this process created before it
\* arrived never calls storageClient.GetURL, and it returns found=true, whether the
\* fast-cache call hits, misses or fails.
CreatedServedLocally ==
  \A p \in Procs :
    (req[p].op = "get" /\ hist.seen[p].created # Empty)
      => /\ ~AtDurableTier(p)
         /\ Returned(p, "get") => resp[p].found

\* C11 witness: a resolve of a created code whose fast-cache call failed has returned
\* found=true from local state.
CreatedServedLocallyWitness ==
  \E p \in Procs :
    /\ Returned(p, "get") /\ hist.seen[p].created # Empty
    /\ hist.seen[p].cacheFailed
    /\ resp[p] = GetFound(urls[req[p].code])

\* Handler p leaves the read of GetURLStats in this step.
StatsReadDone(p) == pc[p] = "s_read" /\ pc'[p] # "s_read"

\* What the durable store answers to GetStats for a code.
DurableStats(code) ==
  IF Has(db, code)
  THEN StatsOK(code, db[code].click_count, FormatRFC3339(db[code].created_at))
  ELSE StatsError

\* C12: GetURLStats answers from local state only when local state has a record of the
\* code; with no local record it calls GetStats of the durable store and, when that call
\* does not fail, returns the durable click count and creation time, or "URL not found"
\* when the durable store has no row; so also after a resolve through a fast-cache hit.
StatsLocalOnlyWhenHeld ==
  /\ [][\A p \in Procs :
          StatsReadDone(p) =>
            IF Has(urls, req[p].code)
            THEN resp'[p] = StatsOK(req[p].code, Count(req[p].code),
                                    FormatRFC3339(Lookup(createdAt, req[p].code, ZeroTime)))
            ELSE pc'[p] = "s_storage"]_vars
  /\ [][\A p \in Procs :
          (pc[p] = "s_storage" /\ pc'[p] = "idle" /\ ~hist'.seen[p].failed)
            => resp'[p] = DurableStats(req[p].code)]_vars

\* C13: a ShortenURL without a custom alias never answers "Custom alias already exists":
\* a generated code that collides with a local record is replaced by a new candidate.
GeneratedCollisionRetried ==
  \A p \in Procs :
    (Returned(p, "shorten") /\ req[p].alias = EmptyAlias)
      => resp[p].error # "Custom alias already exists"

\* The rpc served last by the storage-service was op, and its statement did not fail.
Served(op) == hist.op = op /\ ~hist.dbErr

\* Every row but the one of the rpc served last is as it was before.
OtherRowsKept ==
  \A c \in (DOMAIN db \cup DOMAIN hist.before) \ {hist.code} :
    Has(db, c) /\ Has(hist.before, c) /\ db[c] = hist.before[c]

\* C14: in any sequence of rpcs, a SaveURL whose statement does not fail answers
\* success, also when the code has a row already, and leaves the one row of the code
\* with the URL of this save and every other row as it was.
SaveURLUpserts ==
  Served("SaveURL")
    => /\ hist.resp = [success |-> TRUE, error |-> Empty]
       /\ Has(db, hist.code) /\ db[hist.code].original_url = hist.url
       /\ DOMAIN db = DOMAIN hist.before \cup {hist.code}
       /\ OtherRowsKept

\* C14 witness: a SaveURL for a code whose row held another URL has succeeded and the
\* row now holds the new URL.
SaveURLUpsertsWitness ==
  /\ Served("SaveURL") /\ hist.resp.success
  /\ Has(hist.before, hist.code) /\ hist.before[hist.code].original_url # hist.url
  /\ db[hist.code].original_url = hist.url

\* C15: an IncrementClick for a code without a row answers success=false with
\* "URL not found" and leaves the table as it was; for a code with a row it answers
\* success, raises the click_count of that row by one, and changes no other row.
IncrementClickExact ==
  Served("IncrementClick")
    => IF ~Has(hist.before, hist.code)
       THEN /\ hist.resp = [success |-> FALSE, error |-> "URL not found"]
            /\ db = hist.before
       ELSE /\ hist.resp = [success |-> TRUE, error |-> Empty]
            /\ DOMAIN db = DOMAIN hist.before
            /\ db[hist.code].click_count = hist.before[hist.code].click_count + 1
            /\ db[hist.code].original_url = hist.before[hist.code].original_url
            /\ OtherRowsKept

\* C15 witness: after clicks were counted for one code, an IncrementClick for a code
\* without a row has answered "URL not found" and created no row.
IncrementClickExactWitness ==
  /\ Served("IncrementClick") /\ ~Has(hist.before, hist.code)
  /\ hist.resp.error = "URL not found" /\ ~Has(db, hist.code)
  /\ \E c \in DOMAIN db : db[c].click_count = 1

\* A code of exactly 6 characters, each one of the 62 of the alphabet.
WellFormedCode(code) ==
  /\ Len(code) = 6
  /\ Len(charset) = 62 /\ Cardinality({ charset[j] : j \in 1..Len(charset) }) = 62
  /\ \A i \in 1..Len(code) : \E j \in 1..Len(charset) : code[i] = charset[j]

\* C16: every code that generateShortCode produced for a ShortenURL without alias has
\* length 6 and only characters of the 62-character alphabet, and a ShortenURL without
\* alias that succeeds returns such a code together with the originalURL of the request.
GeneratedCodeWellFormed ==
  \A p \in Procs :
    (req[p].op = "shorten" /\ req[p].alias = EmptyAlias)
      => /\ pc[p] # "idle" => WellFormedCode(loc[p].shortCode)
         /\ (Returned(p, "shorten") /\ resp[p].error = Empty)
              => (WellFormedCode(resp[p].shortCode) /\ resp[p].originalUrl = req[p].url)

\* C16 witness: a ShortenURL without alias has returned a code generated from readings
\* at the last index of the alphabet and past it.
GeneratedCodeWitness ==
  \E p \in Procs :
    /\ Returned(p, "shorten") /\ req[p].alias = EmptyAlias /\ resp[p].error = Empty
    /\ resp[p].shortCode[1] = "9" /\ resp[p].shortCode[5] = "a" /\ resp[p].shortCode[6] = "0"
    /\ resp[p].originalUrl = req[p].url

\* Handler p moves from position a to position b in this step.
Moves(p, a, b) == pc[p] = a /\ pc'[p] = b

\* C17: the tiers are asked in the order fast cache, local state, durable store, and the
\* first hit ends the cascade: an answered cache hit goes to the increment, a cache miss
\* or a failed cache call goes on to local state with nothing returned; a local hit goes
\* to the increment, a local miss to the durable GetURL; the handler returns only after
\* the increment or after the durable store.
CascadeOrder ==
  [][\A p \in Procs :
       (req[p].op = "get" /\ pc'[p] # pc[p] /\ pc[p] # "idle") =>
         /\ pc[p] = "g_cache" =>
              IF Has(cache, req[p].code) /\ ~hist'.seen[p].cacheFailed
              THEN pc'[p] = "inc_lock" /\ loc'[p].ret = GetFound(cache[req[p].code])
              ELSE pc'[p] = "g_rlock" /\ resp'[p] = resp[p]
         /\ pc[p] = "g_rlock" => pc'[p] = "g_read"
         /\ pc[p] = "g_read" =>
              IF Has(urls, req[p].code)
              THEN pc'[p] = "inc_lock" /\ loc'[p].ret = GetFound(urls[req[p].code])
              ELSE pc'[p] = "g_storage"
         /\ pc'[p] = "g_storage" => pc[p] = "g_read"
         /\ pc'[p] = "g_rlock" => pc[p] = "g_cache"
         /\ pc'[p] = "idle" => pc[p] \in {"inc_body", "g_storage"}]_vars

\* C17 witness: a resolve whose fast-cache call failed and that missed in local state
\* has its GetURL call to the durable store in flight.
CascadeOrderWitness ==
  \E p \in Procs :
    /\ pc[p] = "g_storage" /\ hist.seen[p].cacheFailed
    /\ hist.seen[p].cached /\ ~Has(urls, req[p].code)

\* C18: a GetOriginalURL returns found=true only in the step that ends its one
\* incrementStats, which raises the counter of its code by exactly one and changes no
\* other counter; a GetOriginalURL that returns found=false returns from the durable
\* call, and no step on its way (cache call, read of local state, durable call) changes
\* a counter.
IncrementOncePerHit ==
  [][\A p \in Procs :
       (req[p].op = "get" /\ pc'[p] # pc[p] /\ pc[p] # "idle") =>
         /\ (pc'[p] = "idle" /\ resp'[p].found)
              => (pc[p] = "inc_body" /\ stats' = Incremented(stats, req[p].code)
                    /\ Count(req[p].code)' = Count(req[p].code) + 1)
         /\ pc[p] = "inc_body" => (pc'[p] = "idle" /\ resp'[p].found)
         /\ pc'[p] = "inc_body" => pc[p] = "inc_lock"
         /\ (pc'[p] = "idle" /\ ~resp'[p].found) => pc[p] = "g_storage"
         /\ pc[p] \in {"g_cache", "g_rlock", "g_read", "g_storage", "inc_lock", "g_mat_lock"}
              => stats' = stats]_vars

\* C18 witness: two resolves of one code have returned found=true and its counter is 2.
IncrementOncePerHitWitness ==
  \E p \in Procs :
    /\ Returned(p, "get") /\ resp[p].found
    /\ hist.hits[req[p].code] = 2 /\ Count(req[p].code) = 2

\* Handler p holds s.mu, exclusive or shared.
HoldsLock(p) == mu.writer = p \/ p \in mu.readers

\* Handler p waits for the answer of a fast-cache or durable-store call.
CallInFlight(p) == pc[p] \in {"g_cache", "g_storage", "s_storage"}

\* C19: no handler holds the lock while a call of its own is in flight: the exclusive
\* holder is at the body of ShortenURL, at the increment or at the write of a storage
\* hit, a shared holder at its read of the maps, all of them steps that wait for nobody.
NoLockAcrossCall ==
  \A p \in Procs :
    /\ CallInFlight(p) => ~HoldsLock(p)
    /\ mu.writer = p => pc[p] \in {"sh_body", "inc_body", "g_mat"}
    /\ p \in mu.readers => pc[p] \in {"g_read", "s_read"}
    /\ mu.writer # 0 => mu.readers = {}

\* C19 witness: one handler has taken the exclusive lock while another one waits for the
\* answer of its durable GetURL call.
NoLockAcrossCallWitness ==
  \E p \in Procs, q \in Procs :
    /\ pc[p] = "g_storage" /\ ~HoldsLock(p)
    /\ mu.writer = q /\ pc[q] = "sh_body"

\* C20: every GetOriginalURL and every GetURLStats eventually returns, also when the
\* fast cache or the durable store never answers.
RequestsReturn ==
  \A p \in Procs :
    (req[p].op \in {"get", "stats"} /\ pc[p] # "idle") ~> (pc[p] = "idle")

\* Handler p is in ShortenURL, or in GetOriginalURL with its hit in hand.
PastLookup(p) == pc[p] \in {"sh_lock", "sh_body", "inc_lock", "inc_body"}

\* C21: ShortenURL, and GetOriginalURL once it has its hit, return also in runs in which
\* the SaveURL, Set and IncrementClick goroutines never make their call; the step that
\* returns only starts those goroutines, leaves the fast cache and the durable store as
\* they are, and its response is fixed by the request and the hit alone.
NeverWaitsOnDetached ==
  /\ \A p \in Procs : PastLookup(p) ~> (pc[p] = "idle")
  /\ [][\A p \in Procs :
          /\ (ShortenReturns(p) /\ resp'[p].error = Empty)
               => /\ resp'[p] = ShortenOK(loc[p].shortCode, req[p].url)
                  /\ tasks' = Spawn(Spawn(tasks, SaveTask(loc[p].shortCode, req[p].url)),
                                    SetTask(loc[p].shortCode, req[p].url))
                  /\ cache' = cache /\ db' = db
          /\ Moves(p, "inc_body", "idle")
               => /\ resp'[p] = loc[p].ret
                  /\ tasks' = Spawn(tasks, IncrTask(req[p].code))
                  /\ cache' = cache /\ db' = db]_vars

\* C21 witness: a ShortenURL and a GetOriginalURL of the created code have both returned
\* while the SaveURL, the Set and the IncrementClick they started are still to be made.
NeverWaitsOnDetachedWitness ==
  \E p \in Procs, q \in Procs :
    /\ Returned(p, "shorten") /\ resp[p].error = Empty
    /\ Returned(q, "get") /\ resp[q].found /\ req[q].code = resp[p].shortCode
    /\ tasks[SaveTask(resp[p].shortCode, req[p].url)] > 0
    /\ tasks[SetTask(resp[p].shortCode, req[p].url)] > 0
    /\ tasks[IncrTask(req[q].code)] > 0
    /\ ~Has(db, req[q].code) /\ ~Has(cache, req[q].code)

\* A SaveURL or Set goroutine is started only by the successful return of a ShortenURL
\* for a code not created before, one of each; the one call of such a goroutine reaches
\* its handler at most once and ends whatever the outcome, no step starts another, and
\* none of these steps changes a response or a map.
PropagatesOnce ==
  [][\A c \in Codes, u \in URLs :
       /\ (tasks'[SaveTask(c, u)] > tasks[SaveTask(c, u)]
             \/ tasks'[SetTask(c, u)] > tasks[SetTask(c, u)])
            => /\ \E p \in Procs :
                    /\ ShortenReturns(p) /\ loc[p].shortCode = c /\ req[p].url = u
                    /\ resp'[p] = ShortenOK(c, u)
               /\ ~Has(hist.shortened, c)
               /\ tasks' = Spawn(Spawn(tasks, SaveTask(c, u)), SetTask(c, u))
       /\ \A k \in Variants(SaveTask(c, u)) \cup {SetTask(c, u)} :
            /\ tasks'[k] < tasks[k]
                 => /\ \/ tasks' = Finish(tasks, k)
                       \/ /\ k = SaveTask(c, u)
                          /\ \E t \in Times : tasks' = Spawn(Finish(tasks, k), InFlight(k, t))
                    /\ resp' = resp /\ pc' = pc
                    /\ urls' = urls /\ stats' = stats /\ createdAt' = createdAt
            /\ (tasks'[k] > tasks[k] /\ k.at # ZeroTime)
                 => tasks' = Spawn(Finish(tasks, SaveTask(c, u)), k)]_vars

\* C22: each successful ShortenURL makes one SaveURL and one Set, a failed one is not made
\* again and reaches no response, and a GetOriginalURL that arrives after the SaveURL of
\* a code created in this process has failed returns found=true with the created URL.
SingleAttempt ==
  /\ [](\A p \in Procs :
          (Returned(p, "get") /\ hist.seen[p].unsaved)
            => resp[p] = GetFound(hist.seen[p].created))
  /\ PropagatesOnce

\* Every detached goroutine has made its call.
Drained == \A k \in TaskSet : tasks[k] = 0

\* C23: with no failed call, once no request is being served and every detached
\* goroutine has made its call, the click_count of the row of a code created in this
\* process equals the number of its found=true resolves; and no IncrementClick statement
\* of such a code runs while the SaveURL statement of its create is still to run.
DurableClicksExact ==
  /\ [](\A c \in Codes :
          (Has(hist.shortened, c) /\ Quiescent /\ Drained)
            => (Has(db, c) /\ db[c].click_count = hist.hits[c]))
  /\ [][\A c \in Codes :
          (Has(hist.shortened, c)
             /\ \E t \in Times :
                  tasks'[InFlight(IncrTask(c), t)] < tasks[InFlight(IncrTask(c), t)])
            => \A k \in Variants(SaveTask(c, hist.shortened[c])) : tasks[k] = 0]_vars

\* C24: a SaveURL for a code that has a row leaves the click_count and the created_at
\* of that row as they were, sets its original_url and updated_at, and leaves the rows
\* of the other codes untouched.
SaveURLFrame ==
  (Served("SaveURL") /\ Has(hist.before, hist.code))
    => /\ db[hist.code].click_count = hist.before[hist.code].click_count
       /\ db[hist.code].created_at = hist.before[hist.code].created_at
       /\ db[hist.code] = [hist.before[hist.code] EXCEPT !.original_url = hist.url,
                                                          !.updated_at = hist.at]
       /\ OtherRowsKept

\* C24 witness: a later SaveURL with another URL has been applied to a row that had
\* counted clicks; the row still has its click_count and its earlier created_at.
SaveURLFrameWitness ==
  /\ Served("SaveURL") /\ Has(hist.before, hist.code)
  /\ hist.before[hist.code].original_url # hist.url
  /\ db[hist.code].click_count = MaxClicks
  /\ db[hist.code].created_at < db[hist.code].updated_at
  /\ \E c \in DOMAIN db : c # hist.code

====
